---- MODULE Spec2Model ----
(***************************************************************************)
(* A model of weather_bot.py: the location registry (WHITELISTED_USERS,    *)
(* user_locations), its persistence to config.ini through the ConfigParser *)
(* object, the command handlers that read and mutate it, the relay of      *)
(* mock_command, the daily dispatch run, the cron scheduler that is meant  *)
(* to trigger it, and the rain and suggestion parts of the report.         *)
(*                                                                         *)
(* Text (city names, recipient ids, option values of config.ini) is a      *)
(* sequence of one-character strings, so that ','.join, split(','),        *)
(* strip() and lower() are modelled by what they do.                       *)
(***************************************************************************)
EXTENDS Integers, Sequences, FiniteSets, TLC

VARIABLES
    WHITELISTED_USERS,  \* list of recipient ids (line 30, 44-45, 292)
    user_locations,     \* dict recipient id -> list of cities, in insertion order (line 35-38)
    config,             \* the ConfigParser object held in memory (line 24)
    file,               \* the content of config.ini on disk
    last,               \* the last command handled and what it answered
    failures,           \* history: number of failed writes of config.ini so far
    run,                \* the dispatch run (scheduled_weather_update) in progress or ended
    now,                \* the system clock, an instant
    running,            \* whether the process is up
    next_run_time,      \* the scheduler's next fire instant of the job
    fired,              \* history: calendar day -> number of times the trigger fired the job
    job_result,         \* what the scheduler's last call of the job function returned
    SCHEDULE_TIME,      \* configured wall-clock slot of the day (line 32)
    TIMEZONE,           \* configured timezone (line 33)
    weather_data,       \* a provider response handed to the report functions (line 125-128)
    report              \* what get_rain_forecast and get_suggestions returned for it

registry == <<WHITELISTED_USERS, user_locations>>
store == <<config, file>>
clock == <<now, running, next_run_time, fired, job_result, SCHEDULE_TIME, TIMEZONE>>
formatting == <<weather_data, report>>
vars == <<WHITELISTED_USERS, user_locations, config, file, last, failures, run,
          now, running, next_run_time, fired, job_result, SCHEDULE_TIME, TIMEZONE,
          weather_data, report>>

----------------------------------------------------------------------------
(* Bounds *)

\* An add is not offered to a recipient whose list already has this many cities.
MaxLocs == 2
\* At most this many writes of config.ini fail in one behaviour.
MaxWriteFailures == 1
\* The clock runs over the instants 0..MaxTime.
MaxTime == 9
\* The trigger's fires on one calendar day are counted up to this number.
MaxFires == 2

----------------------------------------------------------------------------
(* Text *)

\* str.lower() on the alphabet of the model
LowerChar(c) == IF c = "P" THEN "p" ELSE IF c = "Q" THEN "q" ELSE c
Lower(s) == [i \in 1..Len(s) |-> LowerChar(s[i])]

\* str.strip(): leading and trailing blanks removed
RECURSIVE LStrip(_)
LStrip(s) == IF s # <<>> /\ Head(s) = " " THEN LStrip(Tail(s)) ELSE s
RECURSIVE RStrip(_)
RStrip(s) == IF s # <<>> /\ s[Len(s)] = " " THEN RStrip(SubSeq(s, 1, Len(s) - 1)) ELSE s
Strip(s) == RStrip(LStrip(s))

\* ','.join(list)
RECURSIVE Join(_)
Join(l) == IF l = <<>> THEN <<>>
           ELSE IF Len(l) = 1 THEN l[1]
           ELSE l[1] \o <<",">> \o Join(Tail(l))

\* text.split(','): always at least one piece, ''.split(',') = ['']
RECURSIVE SplitFrom(_, _)
SplitFrom(s, cur) == IF s = <<>> THEN <<cur>>
                     ELSE IF Head(s) = "," THEN <<cur>> \o SplitFrom(Tail(s), <<>>)
                     ELSE SplitFrom(Tail(s), Append(cur, Head(s)))
Split(s) == SplitFrom(s, <<>>)

\* [x.strip() for x in text.split(',') if x.strip()]   (line 30, 31)
RECURSIVE NonEmpty(_)
NonEmpty(l) == IF l = <<>> THEN <<>>
               ELSE IF Strip(Head(l)) = <<>> THEN NonEmpty(Tail(l))
               ELSE <<Strip(Head(l))>> \o NonEmpty(Tail(l))
ParseIdList(text) == NonEmpty(Split(text))

\* [loc.strip() for loc in locations.split(',')]   (line 38)
ParseLocations(text) == [i \in 1..Len(Split(text)) |-> Strip(Split(text)[i])]

Range(l) == {l[i] : i \in 1..Len(l)}

\* text.split(sep)
RECURSIVE SplitOnFrom(_, _, _)
SplitOnFrom(s, sep, cur) ==
    IF s = <<>> THEN <<cur>>
    ELSE IF Head(s) = sep THEN <<cur>> \o SplitOnFrom(Tail(s), sep, <<>>)
    ELSE SplitOnFrom(Tail(s), sep, Append(cur, Head(s)))
SplitOn(s, sep) == SplitOnFrom(s, sep, <<>>)

\* context.args: the words of the text that follows the command
Words(text) == NonEmpty(SplitOn(text, " "))

\* Decimal digits and the number a string of digits reads as
Digit == <<"0", "1", "2", "3", "4", "5", "6", "7", "8", "9">>
IsNumber(f) == f # <<>> /\ \A i \in 1..Len(f) : f[i] \in Range(Digit)
DigitValue(c) == (CHOOSE i \in 1..10 : Digit[i] = c) - 1
RECURSIVE Number(_)
Number(f) == IF f = <<>> THEN 0 ELSE 10 * Number(SubSeq(f, 1, Len(f) - 1)) + DigitValue(f[Len(f)])

\* The calendar that datetime's date constructor checks
IsLeap(y) == y % 4 = 0 /\ (y % 100 # 0 \/ y % 400 = 0)
DaysInMonth(y, m) == IF m = 2 THEN (IF IsLeap(y) THEN 29 ELSE 28)
                     ELSE IF m \in {4, 6, 9, 11} THEN 30 ELSE 31

\* The date of three numbers, as datetime's constructor checks them: the set holding
\* it, empty when ValueError is raised
DateOf(n) == IF n[1] >= 1 /\ n[2] \in 1..12 /\ n[3] \in 1..DaysInMonth(n[1], n[2])
             THEN {[y |-> n[1], m |-> n[2], d |-> n[3]]}
             ELSE {}

\* datetime.strptime(date_str, '%Y-%m-%d').date() (line 207): the set holding the
\* date, empty when ValueError is raised. %Y takes four digits, %m and %d one or two.
strptime(date_str) ==
    UNION {IF /\ Len(f) = 3
              /\ \A i \in 1..3 : IsNumber(f[i])
              /\ Len(f[1]) = 4 /\ Len(f[2]) <= 2 /\ Len(f[3]) <= 2
           THEN UNION {DateOf(n) : n \in {<<Number(f[1]), Number(f[2]), Number(f[3])>>}}
           ELSE {} : f \in {SplitOn(date_str, "-")}}

\* date > other, of datetime.date values (line 208)
After(date, other) ==
    \/ date.y > other.y
    \/ date.y = other.y /\ date.m > other.m
    \/ date.y = other.y /\ date.m = other.m /\ date.d > other.d

----------------------------------------------------------------------------
(* Recipients, cities, provider responses *)

U1 == <<"1">>
U2 == <<"2">>
Users == {U1, U2}

\* config['TELEGRAM']['CHAT_ID'] and config['TELEGRAM']['ADMINS']   (line 29, 31): the
\* admins need not be whitelisted, the chat id is (line 44-45).
ADMIN_CHAT_ID == U1
ADMINS == <<U2>>

\* ' '.join(context.args) of an /add or /remove; NoArgs is an empty context.args
NoArgs == <<>>
Cities == {<<"p">>, <<"P">>, <<"P", ",", " ", "q">>}
Args == Cities \cup {NoArgs}

\* What get_weather returns (line 49-58): None after a RequestException, else the
\* decoded JSON, of which the model keeps forecast.forecastday and the hours of its
\* first day.
NoData == [ok |-> FALSE, forecastday |-> <<>>]
DataDry == [ok |-> TRUE, forecastday |-> <<[hour |-> <<>>]>>]
DataNoDays == [ok |-> TRUE, forecastday |-> <<>>]
Responses == {NoData, DataDry, DataNoDays}

\* The text after /history: nothing, a date alone, and a date with a city: today's,
\* tomorrow's, a leap day, one written without leading zeros, a day that does not
\* exist, and one in day-month-year order.
HistoryTexts ==
    {NoArgs,
     <<"2", "0", "2", "4", "-", "0", "3", "-", "0", "1">>,
     <<"2", "0", "2", "4", "-", "0", "3", "-", "0", "1", " ", "p">>,
     <<"2", "0", "2", "4", "-", "0", "3", "-", "0", "2", " ", "p">>,
     <<"2", "0", "2", "4", "-", "0", "2", "-", "2", "9", " ", "p">>,
     <<"2", "0", "2", "4", "-", "3", "-", "1", " ", "p">>,
     <<"2", "0", "2", "3", "-", "0", "2", "-", "2", "9", " ", "p">>,
     <<"0", "1", "-", "0", "3", "-", "2", "0", "2", "4", " ", "p", " ", "q">>}

\* datetime.now().date() (line 208)
Todays == {[y |-> 2024, m |-> 3, d |-> 1]}

----------------------------------------------------------------------------
(* The registry: a dict with insertion order is a sequence of entries *)

HasKey(ul, u) == \E i \in 1..Len(ul) : ul[i].uid = u

\* user_locations.get(u, [])
Locs(ul, u) == IF HasKey(ul, u)
               THEN ul[CHOOSE i \in 1..Len(ul) : ul[i].uid = u].locs
               ELSE <<>>

\* user_locations.setdefault(u, [])   (line 257)
SetDefault(ul, u) == IF HasKey(ul, u) THEN ul ELSE Append(ul, [uid |-> u, locs |-> <<>>])

\* user_locations[u] = l, u a key already   (line 259, 274)
SetLocs(ul, u, l) == [i \in 1..Len(ul) |-> IF ul[i].uid = u THEN [uid |-> u, locs |-> l]
                                           ELSE ul[i]]

\* A membership test that compares the spellings as they are
InListCaseSensitive(city, locs) == city \in Range(locs)
\* city.lower() in [loc.lower() for loc in locs]   (line 258, 273)
InList(city, locs) == Lower(city) \in {Lower(l) : l \in Range(locs)}

\* [loc for loc in locs if loc.lower() != city.lower()]   (line 274)
RECURSIVE Without(_, _)
Without(locs, city) == IF locs = <<>> THEN <<>>
                       ELSE IF Lower(Head(locs)) = Lower(city) THEN Without(Tail(locs), city)
                       ELSE <<Head(locs)>> \o Without(Tail(locs), city)

----------------------------------------------------------------------------
(* The store: the ConfigParser object and config.ini *)

\* config.has_option('LOCATIONS', k)
HasOption(opts, k) == \E i \in 1..Len(opts) : opts[i].key = k

\* config.set('LOCATIONS', k, v) with the section present
SetOption(opts, k, v) ==
    IF HasOption(opts, k)
    THEN [i \in 1..Len(opts) |-> IF opts[i].key = k THEN [key |-> k, val |-> v] ELSE opts[i]]
    ELSE Append(opts, [key |-> k, val |-> v])

\* config.remove_option('LOCATIONS', k)
RECURSIVE RemoveOption(_, _)
RemoveOption(opts, k) == IF opts = <<>> THEN <<>>
                         ELSE IF Head(opts).key = k THEN RemoveOption(Tail(opts), k)
                         ELSE <<Head(opts)>> \o RemoveOption(Tail(opts), k)

\* The loop of update_config_file (line 236-240): config.set raises NoSectionError
\* when config.ini had no [LOCATIONS] section; has_option is then False.
RECURSIVE WriteLocations(_, _)
WriteLocations(cfg, ul) ==
    IF ul = <<>> THEN [config |-> cfg, raised |-> "none"]
    ELSE IF Head(ul).locs # <<>>
    THEN IF ~cfg.sect THEN [config |-> cfg, raised |-> "NoSectionError"]
         ELSE WriteLocations([cfg EXCEPT !.opts = SetOption(@, Head(ul).uid, Join(Head(ul).locs))],
                             Tail(ul))
    ELSE WriteLocations([cfg EXCEPT !.opts = RemoveOption(@, Head(ul).uid)], Tail(ul))

\* update_config_file (line 233-243): the config object is updated, then written
\* whole; open('config.ini', 'w') raising OSError leaves the file as it was.
update_config_file(wl, ul, cfg, fl, writeOk) ==
    LET r == WriteLocations([cfg EXCEPT !.wl = Join(wl)], ul)
    IN  IF r.raised # "none" THEN [config |-> r.config, file |-> fl, raised |-> r.raised]
        ELSE IF ~writeOk THEN [config |-> r.config, file |-> fl, raised |-> "OSError"]
        ELSE [config |-> r.config, file |-> r.config, raised |-> "none"]

\* The startup load (line 24-45) of the whitelist, the admin id appended
LoadWhitelist(f) == LET w == ParseIdList(f.wl)
                    IN  IF ADMIN_CHAT_ID \in Range(w) THEN w ELSE Append(w, ADMIN_CHAT_ID)

\* The startup load of user_locations (line 35-38)
LoadLocations(f) == IF f.sect
                    THEN [i \in 1..Len(f.opts) |->
                            [uid |-> f.opts[i].key, locs |-> ParseLocations(f.opts[i].val)]]
                    ELSE <<>>

----------------------------------------------------------------------------
(* The command handlers, as functions of the state they read and the outcomes *)
(* of the calls they make: what they leave behind and what they answer.       *)
(* reply "None": nothing is sent; reply "Raised": the exception named in      *)
(* raised left the handler before any reply.                                  *)

\* calls: the number of provider calls the handler made; sent: what it handed to
\* send_weather_report's transport, one entry per city.
Outcome(wl, ul, cfg, fl, reply, raised) ==
    [wl |-> wl, ul |-> ul, config |-> cfg, file |-> fl, reply |-> reply, raised |-> raised,
     calls |-> 0, sent |-> <<>>]

\* An outcome reached after the probe get_weather(city, WEATHERAPI_KEY, days=1) (line 253)
Probed(o) == [o EXCEPT !.calls = 1]

\* An add that looks for the city in the list first and probes only a new one
add_command_duplicate_first(wl, ul, cfg, fl, u, city, probeOk, writeOk) ==
    IF u \notin Range(wl) THEN Outcome(wl, ul, cfg, fl, "None", "none")
    ELSE IF city = NoArgs THEN Outcome(wl, ul, cfg, fl, "Usage", "none")
    ELSE LET ul1 == SetDefault(ul, u)
         IN  IF InList(city, Locs(ul, u))
             THEN Outcome(wl, ul, cfg, fl, "AlreadyPresent", "none")
             ELSE IF ~probeOk THEN Probed(Outcome(wl, ul, cfg, fl, "Rejected", "none"))
             ELSE LET ul2 == SetLocs(ul1, u, Append(Locs(ul1, u), city))
                      w == update_config_file(wl, ul2, cfg, fl, writeOk)
                  IN  Probed(Outcome(wl, ul2, w.config, w.file,
                                     IF w.raised = "none" THEN "Added" ELSE "Raised",
                                     w.raised))

\* add_command (line 245-263)
add_command(wl, ul, cfg, fl, u, city, probeOk, writeOk) ==
    IF u \notin Range(wl) THEN Outcome(wl, ul, cfg, fl, "None", "none")
    ELSE IF city = NoArgs THEN Outcome(wl, ul, cfg, fl, "Usage", "none")
    ELSE IF ~probeOk THEN Probed(Outcome(wl, ul, cfg, fl, "Rejected", "none"))
    ELSE LET ul1 == SetDefault(ul, u)
         IN  IF ~InList(city, Locs(ul1, u))
             THEN LET ul2 == SetLocs(ul1, u, Append(Locs(ul1, u), city))
                      w == update_config_file(wl, ul2, cfg, fl, writeOk)
                  IN  Probed(Outcome(wl, ul2, w.config, w.file,
                                     IF w.raised = "none" THEN "Added" ELSE "Raised",
                                     w.raised))
             ELSE Probed(Outcome(wl, ul1, cfg, fl, "AlreadyPresent", "none"))

\* A remove that creates the recipient's entry as add does
remove_command_setdefault(wl, ul, cfg, fl, u, city, writeOk) ==
    IF u \notin Range(wl) THEN Outcome(wl, ul, cfg, fl, "None", "none")
    ELSE IF city = NoArgs THEN Outcome(wl, ul, cfg, fl, "Usage", "none")
    ELSE IF InList(city, Locs(ul, u))
    THEN LET ul2 == SetLocs(ul, u, Without(Locs(ul, u), city))
             w == update_config_file(wl, ul2, cfg, fl, writeOk)
         IN  Outcome(wl, ul2, w.config, w.file,
                     IF w.raised = "none" THEN "Removed" ELSE "Raised", w.raised)
    ELSE Outcome(wl, SetDefault(ul, u), cfg, fl, "NotFound", "none")

\* remove_command (line 265-278)
remove_command(wl, ul, cfg, fl, u, city, writeOk) ==
    IF u \notin Range(wl) THEN Outcome(wl, ul, cfg, fl, "None", "none")
    ELSE IF city = NoArgs THEN Outcome(wl, ul, cfg, fl, "Usage", "none")
    ELSE IF HasKey(ul, u) /\ InList(city, Locs(ul, u))
    THEN LET ul2 == SetLocs(ul, u, Without(Locs(ul, u), city))
             w == update_config_file(wl, ul2, cfg, fl, writeOk)
         IN  Outcome(wl, ul2, w.config, w.file,
                     IF w.raised = "none" THEN "Removed" ELSE "Raised", w.raised)
    ELSE Outcome(wl, ul, cfg, fl, "NotFound", "none")

\* buymeacoffee_command (line 287-294)
buymeacoffee_command(wl, ul, cfg, fl, u, writeOk) ==
    IF u \in Range(wl) THEN Outcome(wl, ul, cfg, fl, "AlreadyWhitelisted", "none")
    ELSE LET wl2 == Append(wl, u)
             w == update_config_file(wl2, ul, cfg, fl, writeOk)
         IN  Outcome(wl2, ul, w.config, w.file,
                     IF w.raised = "none" THEN "Granted" ELSE "Raised", w.raised)

\* start_command (line 167-177): the help text, to whoever asks
start_command(wl, ul, cfg, fl, u) == Outcome(wl, ul, cfg, fl, "Help", "none")

\* list_command (line 280-285)
list_command(wl, ul, cfg, fl, u) ==
    IF u \notin Range(wl) THEN Outcome(wl, ul, cfg, fl, "None", "none")
    ELSE IF Locs(ul, u) # <<>> THEN Outcome(wl, ul, cfg, fl, "Locations", "none")
    ELSE Outcome(wl, ul, cfg, fl, "NoLocations", "none")

\* A history that asks the provider before it looks at the date
history_command_fetch_first(wl, ul, cfg, fl, u, args, today, hist_data) ==
    LET parsed == strptime(args[1])
    IN  IF u \notin Range(wl) THEN Outcome(wl, ul, cfg, fl, "None", "none")
        ELSE IF Len(args) < 2 THEN Outcome(wl, ul, cfg, fl, "Usage", "none")
        ELSE IF ~hist_data.ok THEN Probed(Outcome(wl, ul, cfg, fl, "NoHistory", "none"))
        ELSE IF parsed = {}
        THEN Probed(Outcome(wl, ul, cfg, fl, "InvalidDate", "none"))
        ELSE IF \E date \in parsed : After(date, today)
        THEN Probed(Outcome(wl, ul, cfg, fl, "FutureDate", "none"))
        ELSE IF hist_data.forecastday = <<>>
        THEN Probed(Outcome(wl, ul, cfg, fl, "Raised", "IndexError"))
        ELSE Probed(Outcome(wl, ul, cfg, fl, "History", "none"))

\* history_command (line 194-229); args is context.args, hist_data is what get_historical_weather returns
\* (line 60-69) when it is called, its forecastday list indexed at line 220
history_command(wl, ul, cfg, fl, u, args, today, hist_data) ==
    LET parsed == strptime(args[1])
    IN  IF u \notin Range(wl) THEN Outcome(wl, ul, cfg, fl, "None", "none")
        ELSE IF Len(args) < 2 THEN Outcome(wl, ul, cfg, fl, "Usage", "none")
        ELSE IF parsed = {} THEN Outcome(wl, ul, cfg, fl, "InvalidDate", "none")
        ELSE IF \E date \in parsed : After(date, today)
        THEN Outcome(wl, ul, cfg, fl, "FutureDate", "none")
        ELSE IF ~hist_data.ok THEN Probed(Outcome(wl, ul, cfg, fl, "NoHistory", "none"))
        ELSE IF hist_data.forecastday = <<>>
        THEN Probed(Outcome(wl, ul, cfg, fl, "Raised", "IndexError"))
        ELSE Probed(Outcome(wl, ul, cfg, fl, "History", "none"))

----------------------------------------------------------------------------
(* The dispatch run *)

\* The pairs of every recipient with stored cities, whitelisted or not
RECURSIVE PairsOfAll(_, _)
PairsOfAll(wl, ul) ==
    IF ul = <<>> THEN <<>>
    ELSE [j \in 1..Len(Head(ul).locs) |-> [uid |-> Head(ul).uid, city |-> Head(ul).locs[j]]]
         \o PairsOfAll(wl, Tail(ul))

\* The (recipient, city) pairs scheduled_weather_update iterates over (line 162-165)
RECURSIVE Pairs(_, _)
Pairs(wl, ul) ==
    IF ul = <<>> THEN <<>>
    ELSE (IF Head(ul).uid \in Range(wl)
          THEN [j \in 1..Len(Head(ul).locs) |-> [uid |-> Head(ul).uid, city |-> Head(ul).locs[j]]]
          ELSE <<>>) \o Pairs(wl, Tail(ul))

\* format_weather_report raises IndexError at forecast.get('forecastday', [{}])[0]
\* when the provider's forecastday list is empty (line 129, 86, 106)
FormatRaises(wd) == wd.forecastday = <<>>

\* send_weather_report (line 150-157) with send_telegram_message (line 71-76), which
\* logs a TelegramError and returns: what was handed to the transport, whether it
\* arrived, and whether an exception left the function.
send_weather_report(wd, sendOk) ==
    IF wd.ok
    THEN IF FormatRaises(wd)
         THEN [fetched |-> TRUE, sent |-> "none", delivered |-> FALSE, raised |-> TRUE]
         ELSE [fetched |-> TRUE, sent |-> "report", delivered |-> sendOk, raised |-> FALSE]
    ELSE [fetched |-> FALSE, sent |-> "notice", delivered |-> sendOk, raised |-> FALSE]

\* The loop of weather_command (line 189-190): send_weather_report for each city in
\* turn, outs[i] what the provider and the transport answer for the i-th; the loop
\* ends at the first call that raises. One entry per call made.
RECURSIVE SendReports(_, _)
SendReports(cities, outs) ==
    IF cities = <<>> THEN <<>>
    ELSE LET o == send_weather_report(Head(outs).wd, Head(outs).sendOk)
             e == [city |-> Head(cities), fetched |-> o.fetched, sent |-> o.sent,
                   raised |-> o.raised]
         IN  IF o.raised THEN <<e>> ELSE <<e>> \o SendReports(Tail(cities), Tail(outs))

\* The cities weather_command reports on (line 184)
WeatherCities(ul, u, city) == IF city # NoArgs THEN <<city>> ELSE Locs(ul, u)

\* A weather command that answers whoever asks
weather_command_open(wl, ul, cfg, fl, u, city, outs) ==
    LET cities == WeatherCities(ul, u, city)
        sent == SendReports(cities, outs)
    IN  IF cities = <<>> THEN Outcome(wl, ul, cfg, fl, "SpecifyCity", "none")
        ELSE [Outcome(wl, ul, cfg, fl, "Reports",
                      IF sent[Len(sent)].raised THEN "IndexError" ELSE "none")
                EXCEPT !.calls = Len(sent), !.sent = sent]

\* weather_command (line 179-190)
weather_command(wl, ul, cfg, fl, u, city, outs) ==
    LET cities == WeatherCities(ul, u, city)
        sent == SendReports(cities, outs)
    IN  IF u \notin Range(wl) THEN Outcome(wl, ul, cfg, fl, "None", "none")
        ELSE IF cities = <<>> THEN Outcome(wl, ul, cfg, fl, "SpecifyCity", "none")
        ELSE [Outcome(wl, ul, cfg, fl, "Reports",
                      IF sent[Len(sent)].raised THEN "IndexError" ELSE "none")
                EXCEPT !.calls = Len(sent), !.sent = sent]

\* No run: ret is the set of values returned, empty for Python's None; to, fetched
\* and sent describe the last call of send_weather_report: the chat it was for,
\* whether get_weather returned data and what was handed to the transport.
IdleRun == [state |-> "idle", pos |-> 1, attempted |-> 0, delivered |-> 0, failed |-> 0,
            aborted |-> FALSE, ret |-> {}, to |-> <<>>, fetched |-> FALSE, sent |-> "none"]

\* via: "direct" for a command of its own, "mock" for one relayed by mock_command
NoCommand == [op |-> "none", uid |-> <<>>, city |-> NoArgs, reply |-> "None", raised |-> "none",
              via |-> "direct", calls |-> 0, sent |-> <<>>]

----------------------------------------------------------------------------
(* The report: get_rain_forecast and get_suggestions *)

\* The hourly samples of one response number at most this many.
MaxHours == 4
\* The us-epa-index scale ends at 6 (line 132).
MaxAqi == 6

\* dict.get(key, default) of a key that may be absent: the value is a set, empty
\* when the key is absent.
Get(value, default) == IF value = {} THEN default ELSE CHOOSE x \in value : TRUE

\* datetime.fromtimestamp(time_epoch).strftime('%I:%M %p') of a sample on the hour,
\* time_epoch counted in hours from local midnight (line 89, 92)
FormatTime(time_epoch) ==
    [hh |-> IF time_epoch % 12 = 0 THEN 12 ELSE time_epoch % 12,
     ampm |-> IF time_epoch % 24 < 12 THEN "AM" ELSE "PM"]
NoTime == [hh |-> 0, ampm |-> "--"]

\* The loop of get_rain_forecast (line 86-93)
RECURSIVE RainScan(_, _, _, _)
RainScan(hour, is_raining, start_time, rain_periods) ==
    IF hour = <<>>
    THEN [is_raining |-> is_raining, start_time |-> start_time, rain_periods |-> rain_periods]
    ELSE IF Head(hour).will_it_rain /\ ~is_raining
    THEN RainScan(Tail(hour), TRUE, FormatTime(Head(hour).time_epoch), rain_periods)
    ELSE IF ~Head(hour).will_it_rain /\ is_raining
    THEN RainScan(Tail(hour), FALSE, start_time,
                  Append(rain_periods, [from |-> start_time,
                                        to |-> FormatTime(Head(hour).time_epoch),
                                        onwards |-> FALSE]))
    ELSE RainScan(Tail(hour), is_raining, start_time, rain_periods)

\* The text of a list of periods (line 98-101)
RainText(rain_periods) ==
    IF rain_periods = <<>>
    THEN [text |-> "No rain expected today.", periods |-> <<>>]
    ELSE [text |-> "Rain expected", periods |-> rain_periods]

\* A scan that forgets the rain still falling at the last sample
get_rain_forecast_unclosed(hour) ==
    RainText(RainScan(hour, FALSE, NoTime, <<>>).rain_periods)

\* get_rain_forecast (line 80-101), of the hour list of the first forecast day
get_rain_forecast(hour) ==
    LET r == RainScan(hour, FALSE, NoTime, <<>>)
    IN  RainText(IF r.is_raining
                 THEN Append(r.rain_periods,
                             [from |-> r.start_time, to |-> NoTime, onwards |-> TRUE])
                 ELSE r.rain_periods)

\* get_suggestions (line 103-123): the list of suggestions, or the fallback
get_suggestions(current, day_forecast) ==
    LET aqi == Get(current.us_epa_index, 0)
        suggestions ==
            (IF day_forecast.daily_will_it_rain \/ day_forecast.daily_chance_of_rain > 40
             THEN <<"umbrella">> ELSE <<>>)
            \o (IF aqi <= 2 THEN <<"air_good">> ELSE <<"air_poor">>)
            \o (IF current.uv > 5 THEN <<"uv_high">>
                ELSE IF current.uv > 2 THEN <<"uv_moderate">> ELSE <<>>)
    IN  IF suggestions = <<>> THEN <<"enjoy_your_day">> ELSE suggestions

\* The provider responses the report functions are applied to: hourly samples from
\* a first hour on, each with its rain flag; the air-quality index, absent or 0..6;
\* the UV index and the day's rain aggregates.
HourLists ==
    UNION {{[i \in 1..n |-> [time_epoch |-> first + i - 1, will_it_rain |-> flags[i]]] :
              flags \in [1..n -> BOOLEAN], first \in {0, 10}} : n \in 0..MaxHours}
WeatherInputs ==
    [hour : HourLists,
     current : [us_epa_index : {{}} \cup {{n} : n \in 0..MaxAqi}, uv : {0, 3, 6}],
     day : [daily_will_it_rain : BOOLEAN, daily_chance_of_rain : {0, 41}]]

\* Nothing computed yet: each part of report is the set of values returned so far.
NoReport == [rain |-> {}, suggestions |-> {}]
NoWeather == [hour |-> <<>>, current |-> [us_epa_index |-> {}, uv |-> 0],
              day |-> [daily_will_it_rain |-> FALSE, daily_chance_of_rain |-> 0]]

----------------------------------------------------------------------------
(* The scheduler: CronTrigger(hour, minute) in TIMEZONE (line 338-343)        *)

\* A calendar day has this many wall-clock slots; SCHEDULE_TIME is one of them.
SlotsPerDay == 3
\* In the timezone "dst" the clocks are set back on day FoldDay: the wall-clock slot
\* FoldSlot of that day comes twice.
FoldDay == 0
FoldSlot == 1

Days == 0..(MaxTime \div SlotsPerDay)

\* The wall-clock reading (calendar day, slot of the day) of instant t in timezone tz
Wall(tz, t) ==
    LET base == FoldDay * SlotsPerDay
    IN  IF tz = "fixed" \/ t < base
        THEN [day |-> t \div SlotsPerDay, slot |-> t % SlotsPerDay]
        ELSE IF t <= base + SlotsPerDay
        THEN [day |-> FoldDay,
              slot |-> IF t - base <= FoldSlot THEN t - base ELSE t - base - 1]
        ELSE [day |-> (t - 1) \div SlotsPerDay, slot |-> (t - 1) % SlotsPerDay]

\* CronTrigger.get_next_fire_time: the first instant after `after` whose wall-clock
\* reading is the configured slot (MaxTime + 1: none within the horizon)
NextFire(tz, slot, after) ==
    LET later == {t \in 0..MaxTime : t > after /\ Wall(tz, t).slot = slot}
    IN  IF later = {} THEN MaxTime + 1
        ELSE CHOOSE t \in later : \A t2 \in later : t <= t2

----------------------------------------------------------------------------
(* Actions *)

\* Whether a write of config.ini may fail now
WriteOutcomes == IF failures < MaxWriteFailures THEN BOOLEAN ELSE {TRUE}

\* Handlers run one update at a time on the event loop: none starts while the
\* dispatch run started by /mock scheduledalert is in progress (line 345-366).
CanHandle == running /\ run.state # "active"

ApplyVia(r, op, u, city, via) ==
    /\ WHITELISTED_USERS' = r.wl
    /\ user_locations' = r.ul
    /\ config' = r.config
    /\ file' = r.file
    /\ last' = [op |-> op, uid |-> u, city |-> city, reply |-> r.reply, raised |-> r.raised,
                via |-> via, calls |-> r.calls, sent |-> r.sent]
    /\ failures' = IF r.raised = "OSError" THEN failures + 1 ELSE failures
    /\ run' = IdleRun
    /\ UNCHANGED <<clock, formatting>>

Apply(r, op, u, city) == ApplyVia(r, op, u, city, "direct")

AddStep(u, city, probeOk, writeOk) ==
    LET r == add_command(WHITELISTED_USERS, user_locations, config, file,
                         u, city, probeOk, writeOk)
    IN  /\ CanHandle
        /\ r.reply \in {"Added", "Raised"} => Len(Locs(r.ul, u)) <= MaxLocs
        /\ Apply(r, "add", u, city)

AddCommand(u, city) ==
    \E probeOk \in BOOLEAN, writeOk \in WriteOutcomes : AddStep(u, city, probeOk, writeOk)

RemoveStep(u, city, writeOk) ==
    LET r == remove_command(WHITELISTED_USERS, user_locations, config, file,
                            u, city, writeOk)
    IN  /\ CanHandle
        /\ Apply(r, "remove", u, city)

RemoveCommand(u, city) == \E writeOk \in WriteOutcomes : RemoveStep(u, city, writeOk)

BuyMeACoffee(u) ==
    \E writeOk \in WriteOutcomes :
        LET r == buymeacoffee_command(WHITELISTED_USERS, user_locations, config, file,
                                      u, writeOk)
        IN  /\ CanHandle
            /\ Apply(r, "buymeacoffee", u, NoArgs)

\* A command comes directly ("direct") or is relayed by mock_command ("mock"), which
\* an admin's /mock <command> [args] does after rewriting the message: the handler
\* gets the admin's own update, so the sender it sees is the admin (line 310-330).
Vias == {"direct", "mock"}
Issued(u, via) == CanHandle /\ (via = "mock" => u \in Range(ADMINS))

MockAdd(u, city) ==
    \E probeOk \in BOOLEAN, writeOk \in WriteOutcomes :
        LET r == add_command(WHITELISTED_USERS, user_locations, config, file,
                             u, city, probeOk, writeOk)
        IN  /\ Issued(u, "mock")
            /\ r.reply \in {"Added", "Raised"} => Len(Locs(r.ul, u)) <= MaxLocs
            /\ ApplyVia(r, "add", u, city, "mock")

MockRemove(u, city) ==
    \E writeOk \in WriteOutcomes :
        LET r == remove_command(WHITELISTED_USERS, user_locations, config, file,
                                u, city, writeOk)
        IN  /\ Issued(u, "mock")
            /\ ApplyVia(r, "remove", u, city, "mock")

MockBuyMeACoffee(u) ==
    \E writeOk \in WriteOutcomes :
        LET r == buymeacoffee_command(WHITELISTED_USERS, user_locations, config, file,
                                      u, writeOk)
        IN  /\ Issued(u, "mock")
            /\ ApplyVia(r, "buymeacoffee", u, NoArgs, "mock")

WeatherCommand(u, city, via) ==
    /\ Issued(u, via)
    /\ \E outs \in [1..Len(WeatherCities(user_locations, u, city)) ->
                       [wd : Responses, sendOk : BOOLEAN]] :
         ApplyVia(weather_command(WHITELISTED_USERS, user_locations, config, file,
                                  u, city, outs),
                  "weather", u, city, via)

ListCommand(u, via) ==
    /\ Issued(u, via)
    /\ ApplyVia(list_command(WHITELISTED_USERS, user_locations, config, file, u),
                "list", u, NoArgs, via)

HistoryCommand(u, text, via) ==
    /\ Issued(u, via)
    /\ \E args \in {Words(text)}, today \in Todays, hist_data \in Responses :
         ApplyVia(history_command(WHITELISTED_USERS, user_locations, config, file,
                                  u, args, today, hist_data),
                  "history", u, text, via)

StartCommand(u, via) ==
    /\ Issued(u, via)
    /\ ApplyVia(start_command(WHITELISTED_USERS, user_locations, config, file, u),
                "start", u, NoArgs, via)

\* mock_command rewrites the text of the message it was sent (line 311). Messages
\* are immutable objects from python-telegram-bot 20.0 on and the assignment raises
\* AttributeError there; the pre-releases before it allow it. The source names no
\* version: either may happen.
MockRewrite == {"done", "AttributeError"}

\* mock_command with 'scheduledalert' (line 296-300, 331-332): an admin starts the
\* dispatch run inside the handler.
MockScheduledAlert(u) ==
    /\ CanHandle
    /\ IF u \in Range(ADMINS)
       THEN \E rewrite \in MockRewrite :
              IF rewrite = "done"
              THEN /\ run' = [IdleRun EXCEPT !.state = "active"]
                   /\ last' = [NoCommand EXCEPT !.op = "scheduledalert", !.uid = u,
                                                !.via = "mock"]
              ELSE /\ run' = IdleRun
                   /\ last' = [NoCommand EXCEPT !.op = "mock", !.uid = u,
                                                !.reply = "Raised", !.raised = rewrite]
       ELSE /\ run' = IdleRun
            /\ last' = [NoCommand EXCEPT !.op = "mock", !.uid = u, !.reply = "NotAuthorized"]
    /\ UNCHANGED <<registry, store, failures, clock, formatting>>

\* A turn of the loops that drops the city from the recipient's list when its
\* forecast cannot be fetched
RunStepDropsFailed ==
    /\ running
    /\ run.state = "active"
    /\ run.pos <= Len(Pairs(WHITELISTED_USERS, user_locations))
    /\ \E wd \in Responses, sendOk \in BOOLEAN :
         LET o == send_weather_report(wd, sendOk)
             pair == Pairs(WHITELISTED_USERS, user_locations)[run.pos]
         IN  /\ run' = [run EXCEPT !.to = pair.uid, !.fetched = o.fetched, !.sent = o.sent,
                                   !.attempted = @ + 1,
                                   !.pos = IF o.fetched THEN @ + 1 ELSE @,
                                   !.aborted = o.raised,
                                   !.state = IF o.raised THEN "ended" ELSE "active"]
             /\ user_locations' =
                    IF o.fetched THEN user_locations
                    ELSE SetLocs(user_locations, pair.uid,
                                 Without(Locs(user_locations, pair.uid), pair.city))
    /\ UNCHANGED <<WHITELISTED_USERS, store, last, failures, clock, formatting>>

\* The ways of mock_command that relay nothing (line 298-304, 311, 333-334): the
\* sender is no admin, no command is named, the rewrite raises, or the command named
\* is none of those it relays.
MockCommand(u) ==
    /\ CanHandle
    /\ \E reply \in IF u \in Range(ADMINS) THEN {"Usage", "Raised", "CannotBeMocked"}
                     ELSE {"NotAuthorized"} :
         last' = [NoCommand EXCEPT !.op = "mock", !.uid = u, !.reply = reply,
                                   !.raised = IF reply = "Raised" THEN "AttributeError"
                                              ELSE "none"]
    /\ run' = IdleRun
    /\ UNCHANGED <<registry, store, failures, clock, formatting>>

\* One turn of the loops of scheduled_weather_update: send_weather_report for the
\* next pair. An exception it raises ends the run.
RunStep ==
    /\ running
    /\ run.state = "active"
    /\ run.pos <= Len(Pairs(WHITELISTED_USERS, user_locations))
    /\ \E wd \in Responses, sendOk \in BOOLEAN :
         LET o == send_weather_report(wd, sendOk)
             bad == o.raised \/ ~o.fetched \/ ~o.delivered
         IN  run' = [run EXCEPT !.to = Pairs(WHITELISTED_USERS, user_locations)[run.pos].uid,
                                !.fetched = o.fetched,
                                !.sent = o.sent,
                                !.attempted = @ + 1,
                                !.delivered = IF bad THEN @ ELSE @ + 1,
                                !.failed = IF bad THEN @ + 1 ELSE @,
                                !.pos = @ + 1,
                                !.aborted = o.raised,
                                !.state = IF o.raised THEN "ended" ELSE "active"]
    /\ UNCHANGED <<registry, store, last, failures, clock, formatting>>

\* The loops are exhausted: scheduled_weather_update returns (None).
RunReturn ==
    /\ running
    /\ run.state = "active"
    /\ run.pos > Len(Pairs(WHITELISTED_USERS, user_locations))
    /\ run' = [run EXCEPT !.state = "ended", !.ret = {}]
    /\ UNCHANGED <<registry, store, last, failures, clock, formatting>>

\* Time passes. The scheduler thread wakes at next_run_time, so a due fire happens
\* before the clock moves on.
Tick ==
    /\ now < MaxTime
    /\ ~(running /\ next_run_time <= now)
    /\ now' = now + 1
    /\ UNCHANGED <<registry, store, last, failures, run,
                   running, next_run_time, fired, job_result, SCHEDULE_TIME, TIMEZONE,
                   formatting>>

\* The system clock is set back.
ClockBack ==
    /\ now > 0
    /\ now' = now - 1
    /\ UNCHANGED <<registry, store, last, failures, run,
                   running, next_run_time, fired, job_result, SCHEDULE_TIME, TIMEZONE,
                   formatting>>

\* The job is due: the executor calls scheduled_weather_update(), an async def, from
\* the scheduler's thread pool. The call returns a coroutine object that nothing
\* awaits; the body does not run (line 341, 159).
TriggerFire ==
    /\ running
    /\ next_run_time <= now
    /\ fired[Wall(TIMEZONE, now).day] < MaxFires
    /\ fired' = [fired EXCEPT ![Wall(TIMEZONE, now).day] = @ + 1]
    /\ job_result' = "coroutine"
    /\ next_run_time' = NextFire(TIMEZONE, SCHEDULE_TIME, now)
    /\ UNCHANGED <<registry, store, last, failures, run,
                   now, running, SCHEDULE_TIME, TIMEZONE, formatting>>

\* The process goes down.
Stop ==
    /\ running
    /\ running' = FALSE
    /\ run' = IdleRun
    /\ last' = NoCommand
    /\ UNCHANGED <<registry, store, failures,
                   now, next_run_time, fired, job_result, SCHEDULE_TIME, TIMEZONE,
                   formatting>>

\* The process starts: config.ini is loaded (line 24-45) and main starts the
\* scheduler, whose job store is in memory (line 338-348).
Start ==
    /\ ~running
    /\ running' = TRUE
    /\ config' = file
    /\ WHITELISTED_USERS' = LoadWhitelist(file)
    /\ user_locations' = LoadLocations(file)
    /\ next_run_time' = NextFire(TIMEZONE, SCHEDULE_TIME, now)
    /\ job_result' = "none"
    /\ UNCHANGED <<file, last, failures, run, now, fired, SCHEDULE_TIME, TIMEZONE,
                   formatting>>

\* format_weather_report calls get_rain_forecast(forecast) (line 142)
RainForecast ==
    /\ report.rain = {}
    /\ report' = [report EXCEPT !.rain = {get_rain_forecast(weather_data.hour)}]
    /\ UNCHANGED <<registry, store, last, failures, run, clock, weather_data>>

\* format_weather_report calls get_suggestions(current, forecast) (line 145)
Suggestions ==
    /\ report.suggestions = {}
    /\ report' = [report EXCEPT
                    !.suggestions = {get_suggestions(weather_data.current, weather_data.day)}]
    /\ UNCHANGED <<registry, store, last, failures, run, clock, weather_data>>


----------------------------------------------------------------------------
(* Initial states and specifications *)

\* config.ini as first deployed: FreshFile has no [LOCATIONS] section and an empty
\* whitelist; StoredFile has a stored city for recipient 2, who is not whitelisted,
\* and none for the admin; DeployedFile has two whitelisted recipients with a city each.
FreshFile == [wl |-> <<>>, sect |-> FALSE, opts |-> <<>>]
StoredFile == [wl |-> <<"1">>, sect |-> TRUE, opts |-> <<[key |-> U2, val |-> <<"q">>]>>]
DeployedFile == [wl |-> <<"1", ",", "2">>, sect |-> TRUE,
                 opts |-> <<[key |-> U1, val |-> <<"p">>], [key |-> U2, val |-> <<"q">>]>>]
InitFiles == {FreshFile, StoredFile}

InitRegistry(f) ==
    /\ file = f
    /\ config = f
    /\ WHITELISTED_USERS = LoadWhitelist(f)
    /\ user_locations = LoadLocations(f)
    /\ last = NoCommand
    /\ failures = 0
    /\ run = IdleRun

InitFormatting ==
    /\ weather_data = NoWeather
    /\ report = NoReport

InitClock(tz, slot) ==
    /\ TIMEZONE = tz
    /\ SCHEDULE_TIME = slot
    /\ now = 0
    /\ running = TRUE
    /\ next_run_time = NextFire(tz, slot, 0)
    /\ fired = [d \in Days |-> 0]
    /\ job_result = "none"

\* The commands and the dispatch run of a process that stays up
Init == /\ \E f \in InitFiles : InitRegistry(f)
        /\ InitClock("fixed", 1)
        /\ InitFormatting

Next ==
    \/ \E u \in Users, city \in Args : AddCommand(u, city)
    \/ \E u \in Users, city \in Args : RemoveCommand(u, city)
    \/ \E u \in Users : BuyMeACoffee(u)
    \/ \E u \in Users : MockScheduledAlert(u)
    \/ RunStep
    \/ RunReturn

Spec == Init /\ [][Next]_vars

\* The same with the process going down and starting again
NextRestart ==
    \/ \E u \in Users, city \in Args : AddCommand(u, city)
    \/ \E u \in Users, city \in Args : RemoveCommand(u, city)
    \/ \E u \in Users : BuyMeACoffee(u)
    \/ Stop
    \/ Start

SpecRestart == Init /\ [][NextRestart]_vars

\* The scheduler and the clock, the registry as loaded
InitSched == /\ InitRegistry(DeployedFile)
             /\ \E tz \in {"fixed", "dst"}, slot \in 0..(SlotsPerDay - 1) : InitClock(tz, slot)
             /\ InitFormatting

NextSched ==
    \/ Tick
    \/ ClockBack
    \/ TriggerFire
    \/ Stop
    \/ Start

SpecSched == InitSched /\ [][NextSched]_vars

\* Every command, direct and relayed, with the cities QueryArgs
QueryArgs == {NoArgs, <<"p">>}

\* The dispatch run over the registries that config.ini as deployed and a few
\* commands give
InitDispatch == /\ \E f \in {StoredFile, DeployedFile} : InitRegistry(f)
                /\ InitClock("fixed", 1)
                /\ InitFormatting

NextDispatch ==
    \/ \E u \in Users, city \in QueryArgs : AddCommand(u, city)
    \/ \E u \in Users : BuyMeACoffee(u)
    \/ \E u \in Users : MockScheduledAlert(u)
    \/ RunStep
    \/ RunReturn

SpecDispatch == InitDispatch /\ [][NextDispatch]_vars

NextQuery ==
    \/ \E u \in Users, city \in QueryArgs : AddCommand(u, city)
    \/ \E u \in Users, city \in QueryArgs : RemoveCommand(u, city)
    \/ \E u \in Users : BuyMeACoffee(u)
    \/ \E u \in Users, city \in QueryArgs : MockAdd(u, city)
    \/ \E u \in Users, city \in QueryArgs : MockRemove(u, city)
    \/ \E u \in Users : MockBuyMeACoffee(u)
    \/ \E u \in Users, city \in QueryArgs, via \in Vias : WeatherCommand(u, city, via)
    \/ \E u \in Users, via \in Vias : ListCommand(u, via)
    \/ \E u \in Users, text \in HistoryTexts, via \in Vias : HistoryCommand(u, text, via)
    \/ \E u \in Users, via \in Vias : StartCommand(u, via)
    \/ \E u \in Users : MockCommand(u)

SpecQuery == Init /\ [][NextQuery]_vars

\* The report functions applied to a provider response
InitReport == /\ InitRegistry(FreshFile)
              /\ InitClock("fixed", 1)
              /\ weather_data \in WeatherInputs
              /\ report = NoReport

NextReport ==
    \/ RainForecast
    \/ Suggestions

SpecReport == InitReport /\ [][NextReport]_vars

----------------------------------------------------------------------------
(* Claims *)

\* The registry as the startup load reads it back from config.ini
StoredWhitelist == LoadWhitelist(file)
StoredLocs(u) == Locs(LoadLocations(file), u)

\* Whether some city of list l equals city when both are lower-cased
Matches(city, l) == \E i \in 1..Len(l) : Lower(l[i]) = Lower(city)

\* C1: when the write of config.ini fails during a mutating command (OSError leaves
\* the handler), the mutation is rolled back: the whitelist and every recipient's list
\* are what they were before the command.
C1_PersistFailureRollsBack ==
    [][last'.raised = "OSError" =>
         /\ WHITELISTED_USERS' = WHITELISTED_USERS
         /\ \A u \in Users : Locs(user_locations', u) = Locs(user_locations, u)]_vars

\* C2: when a dispatch run has ended, every location of every whitelisted recipient
\* has been attempted, whatever failed on the way.
C2_AllPairsAttempted ==
    run.state = "ended" => run.attempted = Len(Pairs(WHITELISTED_USERS, user_locations))

\* C3: a dispatch run returns the summary {attempted, delivered, failed}: attempted
\* is the number of (whitelisted recipient, location) pairs, failed the number of
\* pairs whose fetch or send failed, delivered the difference.
C3_RunReturnsSummary ==
    run.state = "ended" =>
        run.ret = {[attempted |-> Len(Pairs(WHITELISTED_USERS, user_locations)),
                    delivered |-> Len(Pairs(WHITELISTED_USERS, user_locations)) - run.failed,
                    failed |-> run.failed]}

\* C4: once the scheduler has fired the job, the dispatch run is executed: every
\* (whitelisted recipient, location) pair of the registry has been attempted.
C4_FireRunsDispatch ==
    job_result # "none" => run.attempted = Len(Pairs(WHITELISTED_USERS, user_locations))

\* C5: the trigger fires at most once per calendar day of the configured timezone.
C5_AtMostOncePerDay == \A d \in Days : fired[d] <= 1

\* C6: no recipient's list holds two entries equal under case-insensitive comparison.
C6_NoCaseDuplicates ==
    \A e \in 1..Len(user_locations) :
        \A i, j \in 1..Len(user_locations[e].locs) :
            i # j => Lower(user_locations[e].locs[i]) # Lower(user_locations[e].locs[j])

\* C7: an add by an authorized recipient of a city that passes the probe and has a
\* case-insensitive match in the recipient's list answers AlreadyPresent and changes
\* neither the registry nor the store (nothing is appended, nothing is persisted).
C7_AddIdempotentUnderCase ==
    [][(/\ last'.op = "add"
        /\ last'.reply \notin {"None", "Usage", "Rejected"}
        /\ Matches(last'.city, Locs(user_locations, last'.uid)))
       => /\ last'.reply = "AlreadyPresent"
          /\ UNCHANGED <<WHITELISTED_USERS, user_locations, config, file>>]_vars

\* C7 happens: an add of another spelling of the one matching entry answered
\* AlreadyPresent.
C7_Witness ==
    /\ last.op = "add"
    /\ last.reply = "AlreadyPresent"
    /\ last.city \notin Range(Locs(user_locations, last.uid))
    /\ Cardinality({i \in 1..Len(Locs(user_locations, last.uid)) :
                      Lower(Locs(user_locations, last.uid)[i]) = Lower(last.city)}) = 1

\* C8: a remove by an authorized recipient of a city with no case-insensitive match
\* in the recipient's list (or with no list) answers NotFound and leaves the
\* whitelist, every list, the config object and config.ini unchanged.
C8_RemoveAbsentChangesNothing ==
    [][(/\ last'.op = "remove"
        /\ last'.reply \notin {"None", "Usage"}
        /\ ~Matches(last'.city, Locs(user_locations, last'.uid)))
       => /\ last'.reply = "NotFound"
          /\ UNCHANGED <<WHITELISTED_USERS, user_locations, config, file>>]_vars

\* C8 happens: a remove by a recipient with no list at all answered NotFound, and
\* so did one by a recipient whose list holds other cities.
C8_Witness ==
    /\ last.op = "remove"
    /\ last.reply = "NotFound"
    /\ ~HasKey(user_locations, last.uid)
    /\ \E u \in Users : Len(Locs(user_locations, u)) > 0

\* C9: after a mutating command that reports success, config.ini read back gives
\* the whitelist and every recipient's list of the registry in memory.
C9_StoreMirrorsRegistry ==
    last.reply \in {"Added", "Removed", "Granted"} =>
        /\ StoredWhitelist = WHITELISTED_USERS
        /\ \A u \in Users : StoredLocs(u) = Locs(user_locations, u)

\* C10: no update is lost: a city just reported Added is in the recipient's list in
\* memory and in the recipient's list of the store.
C10_AddedIsKept ==
    (last.op = "add" /\ last.reply = "Added") =>
        /\ last.city \in Range(Locs(user_locations, last.uid))
        /\ last.city \in Range(StoredLocs(last.uid))

\* The first samples of the maximal runs of rain-flagged samples of hour list h, and
\* the first sample without rain after sample s (0: the run reaches the last sample)
RunStarts(h) == {i \in 1..Len(h) : h[i].will_it_rain /\ (i = 1 \/ ~h[i - 1].will_it_rain)}
RunEnd(h, s) ==
    LET later == {j \in (s + 1)..Len(h) : ~h[j].will_it_rain}
    IN  IF later = {} THEN 0 ELSE CHOOSE j \in later : \A j2 \in later : j <= j2

\* C15: the rain summary lists one interval per maximal run of rain-flagged samples,
\* in chronological order, from the time of the run's first sample to the time of
\* the first sample without rain after it, or "onwards" when the run reaches the last
\* sample; it is "No rain expected today." exactly when no sample is rain-flagged.
C15_OneIntervalPerRun ==
    \A r \in report.rain :
        LET h == weather_data.hour
            starts == RunStarts(h)
        IN  /\ Len(r.periods) = Cardinality(starts)
            /\ \A s \in starts :
                 LET k == Cardinality({s2 \in starts : s2 <= s})
                     e == RunEnd(h, s)
                 IN  /\ r.periods[k].from = FormatTime(h[s].time_epoch)
                     /\ r.periods[k].onwards = (e = 0)
                     /\ e # 0 => r.periods[k].to = FormatTime(h[e].time_epoch)
            /\ (r.text = "No rain expected today.") = (starts = {})

\* C15 happens: a summary of two runs, the first closed by a sample without rain, the
\* second reaching the last sample.
C15_Witness ==
    \E r \in report.rain :
        /\ Len(r.periods) = 2
        /\ ~r.periods[1].onwards
        /\ r.periods[2].onwards
        /\ r.periods[1].to # r.periods[2].from

\* C16: the suggestion list holds exactly one air-quality item: the positive note
\* when the index is 1 or 2, the caution otherwise, also when the index is absent or
\* 0; the fallback "Enjoy your day!" is never returned.
C16_ExactlyOneAirQualityItem ==
    \A s \in report.suggestions :
        LET idx == weather_data.current.us_epa_index
        IN  /\ Cardinality({i \in 1..Len(s) : s[i] \in {"air_good", "air_poor"}}) = 1
            /\ ("air_good" \in Range(s)) = (idx # {} /\ \A n \in idx : 1 <= n /\ n <= 2)
            /\ "enjoy_your_day" \notin Range(s)

\* C11: a dispatch run sends only to whitelisted recipients: the chat of every call
\* of send_weather_report a run has made is in the whitelist.
C11_RunSendsToWhitelistedOnly ==
    run.attempted > 0 => run.to \in Range(WHITELISTED_USERS)

\* C11 happens: a run has gone through all its pairs while a recipient who is not
\* whitelisted has stored cities.
C11_Witness ==
    /\ run.state = "ended"
    /\ ~run.aborted
    /\ run.attempted > 0
    /\ \E u \in Users : u \notin Range(WHITELISTED_USERS) /\ Locs(user_locations, u) # <<>>

\* C12: no step of a dispatch run changes the whitelist, any recipient's list, the
\* config object or config.ini, whatever the fetches and sends answer.
C12_RunLeavesRegistryAndStore ==
    [][run.state = "active" =>
         UNCHANGED <<WHITELISTED_USERS, user_locations, config, file>>]_vars

\* C12 happens: a run has ended after a mix of delivered and failed pairs.
C12_Witness ==
    /\ run.state = "ended"
    /\ run.delivered > 0
    /\ run.failed > 0
    /\ ~run.aborted

\* C20: every call of send_weather_report hands exactly one message to the transport:
\* the report when the fetch returned data, the "could not retrieve" notice when it
\* did not.
C20_OneSendPerPair ==
    run.attempted > 0 => run.sent = (IF run.fetched THEN "report" ELSE "notice")

\* C17: an add whose probe fails answers Rejected after exactly one provider call,
\* whether or not the city is already in the recipient's list, and leaves the
\* whitelist, every list, the config object and config.ini as they were: nothing is
\* appended or persisted without a successful probe.
C17_ProbeBeforeDuplicateCheck ==
    \A u \in Range(WHITELISTED_USERS), city \in Cities, writeOk \in BOOLEAN :
        LET r == add_command(WHITELISTED_USERS, user_locations, config, file,
                             u, city, FALSE, writeOk)
        IN  /\ r.reply = "Rejected"
            /\ r.calls = 1
            /\ r.wl = WHITELISTED_USERS
            /\ r.ul = user_locations
            /\ r.config = config
            /\ r.file = file

\* C17 happens: an add of a city that is in the recipient's list was answered
\* Rejected.
C17_Witness ==
    /\ last.op = "add"
    /\ last.reply = "Rejected"
    /\ Matches(last.city, Locs(user_locations, last.uid))

\* C19: writing the registry with update_config_file and reading config.ini back with
\* the startup load gives every recipient the list it has in memory, in the same
\* order.
C19_SaveLoadRoundTrip ==
    LET w == update_config_file(WHITELISTED_USERS, user_locations, config, file, TRUE)
    IN  w.raised = "none" =>
            \A u \in Users : Locs(LoadLocations(w.file), u) = Locs(user_locations, u)

\* C14: the whitelist only grows: the admin-notification recipient is in it in every
\* state, and no step takes a recipient out of it.
C14_WhitelistOnlyGrows ==
    /\ [](ADMIN_CHAT_ID \in Range(WHITELISTED_USERS))
    /\ [][\A u \in Users : u \in Range(WHITELISTED_USERS) => u \in Range(WHITELISTED_USERS')]_vars

\* The commands that answer whitelisted recipients only
Restricted == {"weather", "add", "remove", "list", "history"}

\* C13: a weather, add, remove, list or history command whose sender is not in the
\* whitelist, sent directly or relayed by mock, is ignored: no reply, no message, no
\* provider call, no exception, and the whitelist, every list, the config object and
\* config.ini stay as they were.
C13_UnauthorizedIgnored ==
    [][(last'.op \in Restricted /\ last'.uid \notin Range(WHITELISTED_USERS))
       => /\ last'.reply = "None"
          /\ last'.calls = 0
          /\ last'.sent = <<>>
          /\ last'.raised = "none"
          /\ UNCHANGED <<WHITELISTED_USERS, user_locations, config, file>>]_vars

\* C13 happens: an admin who is not whitelisted and has stored cities had a weather
\* command relayed by mock, and nothing was answered.
C13_Witness ==
    /\ last.op = "weather"
    /\ last.via = "mock"
    /\ last.uid \notin Range(WHITELISTED_USERS)
    /\ Locs(user_locations, last.uid) # <<>>
    /\ last.reply = "None"

\* The ways of writing a calendar date as year-month-day, the year in four digits,
\* month and day in two or without the leading zero
TwoDigits(n) == <<Digit[(n \div 10) + 1], Digit[(n % 10) + 1]>>
Numerals(n) == IF n < 10 THEN {TwoDigits(n), <<Digit[n + 1]>>} ELSE {TwoDigits(n)}
Spellings(date) ==
    {TwoDigits(date.y \div 100) \o TwoDigits(date.y % 100) \o <<"-">> \o mm \o <<"-">> \o dd :
        mm \in Numerals(date.m), dd \in Numerals(date.d)}

\* The dates of the years the requests name, and the spellings of those that are not
\* after today
Calendar == UNION {{[y |-> y, m |-> m, d |-> d] : d \in 1..DaysInMonth(y, m)} :
                     y \in 2023..2024, m \in 1..12}
PastSpellings == [today \in Todays |->
                    UNION {Spellings(date) : date \in {c \in Calendar : ~After(c, today)}}]

\* C18: a history request with fewer than two words, or whose first word is not a
\* calendar date written year-month-day, or names a day after today, is answered
\* with a validation error and no provider call, and changes nothing.
C18_HistoryValidatedFirst ==
    \A u \in Range(WHITELISTED_USERS), text \in HistoryTexts,
       today \in Todays, hist_data \in Responses :
        \A args \in {Words(text)} :
            LET r == history_command(WHITELISTED_USERS, user_locations, config, file,
                                     u, args, today, hist_data)
            IN  (Len(args) < 2 \/ args[1] \notin PastSpellings[today])
                => /\ r.reply \in {"Usage", "InvalidDate", "FutureDate"}
                   /\ r.calls = 0
                   /\ r.wl = WHITELISTED_USERS
                   /\ r.ul = user_locations
                   /\ r.config = config
                   /\ r.file = file

\* C18 happens: a history request for tomorrow was answered "future date" without a
\* provider call, by a recipient with stored cities.
C18_Witness ==
    /\ last.op = "history"
    /\ last.reply = "FutureDate"
    /\ last.calls = 0
    /\ Locs(user_locations, last.uid) # <<>>

====
